---- MODULE Spec2Model ----
(***************************************************************************)
(* Model of netlify/functions/api.js: an Express app with five GET routes  *)
(* (/soil, /health, /rain-history, /geocode, /weather) and the Netlify     *)
(* function adapter exports.handler, the only entry point the file exports.*)
(*                                                                         *)
(* Two specifications share the variables:                                 *)
(*   Spec        one invocation of exports.handler (lines 164-244), which  *)
(*               hands the routed paths to app._router.handle with its own *)
(*               response object {status, json, send};                     *)
(*   SpecRoutes  one request run through the app's middleware (lines 13-15)*)
(*               and route handlers (lines 18-161) with a response object  *)
(*               that has Express's API (status() chains, set() exists).   *)
(*                                                                         *)
(* Numbers are integers in fixed units, named where they are used.         *)
(***************************************************************************)
EXTENDS Integers, Sequences, FiniteSets, TLC

\* ------------------------------------------------------------------ bounds
\* longest event.path, in path tokens
MaxPathLen == 2
\* longest upstream daily.time / daily.precipitation_sum array
MaxDays == 2

\* ------------------------------------------------------------ the inputs
\* A query parameter is absent (undefined), the empty string, or a string.
Absent == "<absent>"
Empty == ""
\* event.path is a concatenation of these tokens; PFX is the function prefix.
PFX == "/.netlify/functions/api"
RoutePaths == {"/health", "/soil", "/rain-history", "/geocode", "/weather"}
PathTokens == RoutePaths \cup {PFX, "/nope"}
Paths == UNION {[1..n -> PathTokens] : n \in 0..MaxPathLen}
Methods == {"GET", "POST", "OPTIONS"}
\* What the upstream service answers to the one fetch of a handler:
\* a 2xx answer with a JSON body, a non-2xx answer, a network error
\* (fetch rejects), or a 2xx answer whose body is not JSON (r.json() rejects).
UpstreamStates == {"ok", "http_error", "network_error", "bad_json"}
\* Sign of the process's local time offset from UTC (west, none, east).
TimeZones == {-1, 0, 1}

VARIABLES
    event,          \* the invocation event / request: httpMethod, path, lat, lon, q
    apiKey,         \* API_KEY is set (line 7)
    tz,             \* the process's time zone (read by Date.prototype.getMonth)
    upstream,       \* the state of the upstream service
    pc,             \* where the invocation / the request is
    statusCode,     \* exports.handler's local (line 177)
    responseData,   \* exports.handler's local (line 176)
    promise,        \* the promise exports.handler awaits (lines 194-228)
    ret,            \* the envelope exports.handler returned
    resStatus,      \* the route's response: its status code
    resBody,        \* the route's response: the body written
    resHeaders,     \* the route's response: the headers set
    writes,         \* how many bodies were written to the route's response
    calls,          \* outbound fetch calls made
    invoked,        \* a route handler was entered
    fetched         \* the body the upstream answered with

vars == <<event, apiKey, tz, upstream, pc, statusCode, responseData, promise,
          ret, resStatus, resBody, resHeaders, writes, calls, invoked, fetched>>

\* ------------------------------------------------------------ JSON bodies
\* Every body is a record with a field "kind".
NoBody == [kind |-> "none"]
EmptyBody == [kind |-> "empty"]
ErrorBody(msg) == [kind |-> "error", error |-> msg]
HealthBody == [kind |-> "health", status |-> "ok", timestamp |-> "now"]
NoEnvelope == [statusCode |-> 0, headers |-> {}, body |-> NoBody]

Missing(v) == v = Absent \/ v = Empty

\* --------------------------------------------- exports.handler (164-244)
\* line 165: String.prototype.replace removes the first occurrence only.
RECURSIVE StripPrefix(_)
StripPrefix(p) ==
    IF p = <<>> THEN <<>>
    ELSE IF Head(p) = PFX THEN Tail(p)
    ELSE <<Head(p)>> \o StripPrefix(Tail(p))

\* lines 178-182: the adapter's headers object; nothing writes to it later.
AdapterHeaders ==
    {"Access-Control-Allow-Origin: *",
     "Access-Control-Allow-Headers: Content-Type",
     "Access-Control-Allow-Methods: GET, POST, PUT, DELETE, OPTIONS"}

\* line 186
IsPreflight_never(method) == FALSE
IsPreflight(method) == method = "OPTIONS"

\* lines 191-232: the if/else-if chain compares the stripped path with ===.
MatchRoute_prefix(path) ==
    IF path # <<>> /\ Head(path) \in RoutePaths THEN Head(path) ELSE "notfound"
MatchRoute(path) ==
    IF Len(path) = 1 /\ path[1] \in RoutePaths THEN path[1] ELSE "notfound"

RouteOf(e) == MatchRoute(StripPrefix(e.path))

\* lines 196-200: the response object handed to the router has these methods.
MockResMethods == {"status", "json", "send"}
\* lines 13-15: cors() writes its headers with res.setHeader and the
\* cache middleware calls res.set before any route runs.
MiddlewareNeeds == {"setHeader", "set"}
\* The TypeError the router passes to its final callback (reject): which
\* call fails first depends on the installed Express.
RouterErrors ==
    {"res.setHeader is not a function", "res.set is not a function",
     "Cannot read properties of undefined (reading 'handle')"}

Envelope == [statusCode |-> statusCode', headers |-> AdapterHeaders,
             body |-> responseData']

Unrouted == UNCHANGED <<event, apiKey, tz, upstream, resStatus, resBody,
                        resHeaders, writes, calls, invoked, fetched>>

\* lines 186-188: OPTIONS returns before any routing.
Preflight ==
    /\ pc = "start"
    /\ IsPreflight(event.httpMethod)
    /\ ret' = [statusCode |-> 200, headers |-> AdapterHeaders, body |-> EmptyBody]
    /\ pc' = "returned"
    /\ UNCHANGED <<statusCode, responseData, promise>>
    /\ Unrouted

\* lines 191-192, 239-243
Health ==
    /\ pc = "start"
    /\ ~IsPreflight(event.httpMethod)
    /\ RouteOf(event) = "/health"
    /\ statusCode' = statusCode
    /\ responseData' = HealthBody
    /\ ret' = Envelope
    /\ pc' = "returned"
    /\ UNCHANGED promise
    /\ Unrouted

\* lines 229-232, 239-243
NotFound ==
    /\ pc = "start"
    /\ ~IsPreflight(event.httpMethod)
    /\ RouteOf(event) = "notfound"
    /\ statusCode' = 404
    /\ responseData' = ErrorBody("Not found")
    /\ ret' = Envelope
    /\ pc' = "returned"
    /\ UNCHANGED promise
    /\ Unrouted

\* lines 193-228: new Promise(...) whose executor calls app._router.handle
\* with the response object of lines 196-200 and reject as the final
\* callback; resolve is never called.  The middleware of lines 13-15 runs
\* before the route and needs methods the object lacks, so the router ends
\* with reject(TypeError) and the route handler is not entered.
RouterHandle ==
    /\ pc = "start"
    /\ ~IsPreflight(event.httpMethod)
    /\ RouteOf(event) \in RoutePaths \ {"/health"}
    /\ ~(MiddlewareNeeds \subseteq MockResMethods)
    /\ \E err \in RouterErrors : promise' = [state |-> "rejected", error |-> err]
    /\ pc' = "awaiting"
    /\ UNCHANGED <<statusCode, responseData, ret>>
    /\ Unrouted

\* lines 234-243: the awaited promise rejects; catch, then return.
CatchError ==
    /\ pc = "awaiting"
    /\ promise.state = "rejected"
    /\ statusCode' = 500
    /\ responseData' = ErrorBody(promise.error)
    /\ ret' = Envelope
    /\ pc' = "returned"
    /\ UNCHANGED promise
    /\ Unrouted

\* ------------------------------------------------ numbers and JSON.stringify
\* NaN, and the null JSON.stringify writes for it.
NaN == 0 - 1
JsonNull == 0 - 2
Abs(x) == IF x < 0 THEN -x ELSE x
JsonNumber(x) == IF x = NaN THEN JsonNull ELSE x

\* An upstream JSON value: a number v (in the unit of its use), null or
\* undefined, or a string that is not a number.
Num(v) == [k |-> "num", v |-> v]
Undef == [k |-> "undef", v |-> 0]
NotNum == [k |-> "str", v |-> 0]

\* ------------------------------------------------- the route's own response
\* res.status(code).json(body) on an Express response
StatusJson(code, body) ==
    /\ resStatus' = code
    /\ resBody' = body
    /\ writes' = writes + 1

\* res.json(body): the status stays what it is (200)
Json(body) == StatusJson(resStatus, body)

RouteFrame == UNCHANGED <<event, apiKey, tz, upstream, statusCode,
                          responseData, promise, ret>>

\* lines 13-15: cors() and the cache middleware run before every route.
CorsHeader == "Access-Control-Allow-Origin: *"
CacheHeader == "Cache-Control: no-store"
Middleware ==
    /\ pc = "request"
    /\ resHeaders' = resHeaders \cup {CorsHeader, CacheHeader}
    /\ pc' = "route"
    /\ UNCHANGED <<resStatus, resBody, writes, calls, invoked, fetched>>
    /\ RouteFrame

Route == event.path[1]

\* lines 68-70
HealthRoute ==
    /\ pc = "route"
    /\ Route = "/health"
    /\ invoked' = TRUE
    /\ Json(HealthBody)
    /\ pc' = "done"
    /\ UNCHANGED <<resHeaders, calls, fetched>>
    /\ RouteFrame

\* A handler up to its await fetch(url): the parameter check (and for
\* /weather the key check), then one outbound call.
Reject400(msg) ==
    /\ StatusJson(400, ErrorBody(msg))
    /\ pc' = "done"
    /\ UNCHANGED calls
FetchIssued_twice(n) == n + 2
FetchIssued(n) == n + 1
AwaitFetch(at) ==
    /\ calls' = FetchIssued(calls)
    /\ pc' = at
    /\ UNCHANGED <<resStatus, resBody, writes>>

\* -------------------------------------------------------- /soil (18-66)
\* lat*lon on the query strings (line 54): ToNumber of each, then the product
ToNumber(s) == CASE s = "1" -> 1 [] s = "2" -> 2 [] OTHER -> NaN
Times(a, b) == IF a = NaN \/ b = NaN THEN NaN ELSE a * b
\* Math.sin(x) * 10000, in hundredths (truncated), on the products that occur
SinTimes1e4(x) ==
    CASE x = 1 -> 841470 [] x = 2 -> 909297 [] x = 4 -> 0 - 756802 [] OTHER -> NaN
\* line 54, in hundredths
Hash(lat, lon) ==
    LET s == SinTimes1e4(Times(ToNumber(lat), ToNumber(lon)))
    IN IF s = NaN THEN NaN ELSE Abs(s)

\* lines 55-60.  ph in 1e-2, nitrogen in 1e-4, organic_matter in 1e-5.
MockSoil(lat, lon) ==
    LET hash == Hash(lat, lon)
    IN [kind |-> "soil",
        ph |-> JsonNumber(IF hash = NaN THEN NaN ELSE 550 + (hash % 300)),
        nitrogen |-> JsonNumber(IF hash = NaN THEN NaN ELSE 1000 + (hash % 2000)),
        organic_matter |->
            JsonNumber(IF hash = NaN THEN NaN ELSE (1000 + (hash % 3000)) * 100),
        source |-> "mock"]

\* line 42: Number(mean.toFixed(2)), mean in 1e-3, the result in 1e-2
ToFixed2(m) == (m + 5) \div 10
\* lines 39-43 followed by "|| default" (lines 46-48): null and 0 are falsy
FirstValOr(mean, default) ==
    IF mean.k = "num" /\ ToFixed2(mean.v) # 0 THEN ToFixed2(mean.v) ELSE default
\* line 42: a mean that is neither undefined nor a number has no toFixed
FirstValThrows(mean) == mean.k = "str"

Means == {Undef, NotNum, Num(0), Num(4), Num(6125)}
SoilGridsAnswers ==
    [kind : {"layers"}, phh2o : Means, nitrogen : {Undef, NotNum, Num(6125)},
     soc : {Undef, Num(6125)}]

\* lines 45-50, same units as MockSoil
SoilGridsBody(j) ==
    [kind |-> "soil",
     ph |-> FirstValOr(j.phh2o, 650),
     nitrogen |-> FirstValOr(j.nitrogen, 15) * 100,
     organic_matter |-> FirstValOr(j.soc, 150) * 1724,
     source |-> "soilgrids"]

\* lines 19-33
SoilStart ==
    /\ pc = "route"
    /\ Route = "/soil"
    /\ invoked' = TRUE
    /\ IF Missing(event.lat) \/ Missing(event.lon)
         THEN Reject400("Missing lat/lon")
         ELSE AwaitFetch("soil_fetch")
    /\ UNCHANGED <<resHeaders, fetched>>
    /\ RouteFrame

\* lines 33-61: the answer arrives; any failure of the try block (fetch
\* rejects, !r.ok, r.json() rejects, firstVal throws) ends in the mock.
SoilFetchReturn ==
    /\ pc = "soil_fetch"
    /\ \E j \in (IF upstream = "ok" THEN SoilGridsAnswers ELSE {NoBody}) :
         /\ fetched' = j
         /\ IF /\ upstream = "ok"
               /\ ~FirstValThrows(j.phh2o)
               /\ ~FirstValThrows(j.nitrogen)
               /\ ~FirstValThrows(j.soc)
              THEN Json(SoilGridsBody(j))
              ELSE Json(MockSoil(event.lat, event.lon))
    /\ pc' = "done"
    /\ UNCHANGED <<resHeaders, calls, invoked>>
    /\ RouteFrame

\* ------------------------------------------------ /rain-history (72-106)
\* line 86
monthNames_short ==
    <<"Jan", "Feb", "Mar", "Apr", "May", "Jun", "Jul", "Aug", "Sep", "Oct", "Nov">>
monthNames ==
    <<"Jan", "Feb", "Mar", "Apr", "May", "Jun", "Jul", "Aug", "Sep", "Oct", "Nov",
      "Dec">>

\* An entry of daily.time: an ISO date "2023-mm-dd", or a string that is no date.
Day(m, d) == [ok |-> TRUE, month |-> m, day |-> d]
BadDate == [ok |-> FALSE, month |-> 0, day |-> 0]
Dates == {Day(1, 1), Day(1, 15), Day(2, 1), BadDate}
\* An entry of daily.precipitation_sum, numbers in quarters of a millimetre
\* (exact in binary floating point, so the sums are exact).
Precipitations == {Num(0 - 4), Num(1), Num(12), Num(20), Undef, NotNum}
SeqsUpTo(S, n) == UNION {[1..k -> S] : k \in 0..n}
\* data of line 81: daily may be missing, and so may daily.time
OpenMeteoAnswers ==
    [kind : {"daily"}, hasDaily : {TRUE}, hasTime : {TRUE},
     time : SeqsUpTo(Dates, MaxDays), precip : SeqsUpTo(Precipitations, MaxDays)]
    \cup
    [kind : {"daily"}, hasDaily : {TRUE}, hasTime : {FALSE},
     time : {<<>>}, precip : SeqsUpTo(Precipitations, 1)]
    \cup
    {[kind |-> "daily", hasDaily |-> FALSE, hasTime |-> FALSE, time |-> <<>>,
      precip |-> <<>>]}

\* line 89: new Date(daily.time[i]); an index past the end reads undefined,
\* and new Date(undefined) is an invalid date.
DateAt(time, i) == IF i \in DOMAIN time THEN time[i] ELSE BadDate
\* line 91: a date-only ISO string is parsed as midnight UTC and getMonth()
\* reads the month in local time: west of UTC the first of a month is still
\* the last day of the month before.  0 = January.
getMonth(date, zone) ==
    IF zone < 0 /\ date.day = 1 THEN (date.month + 10) % 12 ELSE date.month - 1
\* line 92: Number(val) || 0
NumberOrZero(val) == IF val.k = "num" THEN val.v ELSE 0

\* lines 85-94: monthly after the forEach over the first n entries of precip
RECURSIVE Accumulate(_, _, _, _)
Accumulate(time, precip, zone, n) ==
    IF n = 0 THEN [m \in 0..11 |-> 0]
    ELSE LET monthly == Accumulate(time, precip, zone, n - 1)
             date == DateAt(time, n)
         IN IF date.ok
              THEN [monthly EXCEPT ![getMonth(date, zone)] = @ + NumberOrZero(precip[n])]
              ELSE monthly

\* line 98: Number(x.toFixed(1)), x in quarters, the result in tenths; an
\* exact tie goes away from zero.
ToFixed1(x) == IF x < 0 THEN -((5 * (-x) + 1) \div 2) ELSE (5 * x + 1) \div 2

\* lines 96-99
RainBody(daily, zone) ==
    LET monthly == Accumulate(daily.time, daily.precip, zone, Len(daily.precip))
    IN [kind |-> "rain",
        months |-> [i \in 1..Len(monthNames) |->
                      [month |-> monthNames[i], rainfall |-> ToFixed1(monthly[i - 1])]]]

\* line 89 throws when daily.time is missing and precip has an entry
RainThrows(daily) == ~daily.hasTime /\ daily.precip # <<>>

\* lines 73-79
RainStart ==
    /\ pc = "route"
    /\ Route = "/rain-history"
    /\ invoked' = TRUE
    /\ IF Missing(event.lat) \/ Missing(event.lon)
         THEN Reject400("Missing lat/lon")
         ELSE AwaitFetch("rain_fetch")
    /\ UNCHANGED <<resHeaders, fetched>>
    /\ RouteFrame

\* lines 79-105
RainFetchReturn ==
    /\ pc = "rain_fetch"
    /\ \E data \in (IF upstream = "ok" THEN OpenMeteoAnswers ELSE {NoBody}) :
         /\ fetched' = data
         /\ IF upstream = "ok" /\ ~RainThrows(data)
              THEN Json(RainBody(data, tz))
              ELSE StatusJson(500, ErrorBody("Rain history fetch failed"))
    /\ pc' = "done"
    /\ UNCHANGED <<resHeaders, calls, invoked>>
    /\ RouteFrame

\* --------------------------------------------------- /geocode (108-135)
\* parseFloat of the upstream's lat / lon strings, in tenths
ParseFloat(s) == CASE s = "18.5" -> 185 [] s = "73.9" -> 739 [] OTHER -> NaN
\* data of line 117: null, an empty array, or an array whose first match is
NominatimAnswers ==
    {[kind |-> "null"], [kind |-> "empty_array"]}
    \cup [kind : {"matches"}, lat : {"18.5", "n/a"}, lon : {"73.9"},
          display_name : {"Pune"}, class : {"place"}, type : {"city"}]

\* lines 123-130
GeocodeBody(m) ==
    [kind |-> "geocode", lat |-> JsonNumber(ParseFloat(m.lat)),
     lon |-> JsonNumber(ParseFloat(m.lon)), display_name |-> m.display_name,
     class |-> m.class, type |-> m.type]

\* lines 109-115
GeocodeStart ==
    /\ pc = "route"
    /\ Route = "/geocode"
    /\ invoked' = TRUE
    /\ IF Missing(event.q)
         THEN Reject400("Missing query")
         ELSE AwaitFetch("geocode_fetch")
    /\ UNCHANGED <<resHeaders, fetched>>
    /\ RouteFrame

\* lines 115-134
GeocodeFetchReturn ==
    /\ pc = "geocode_fetch"
    /\ \E data \in (IF upstream = "ok" THEN NominatimAnswers ELSE {NoBody}) :
         /\ fetched' = data
         /\ IF upstream # "ok"
              THEN StatusJson(500, ErrorBody("Geocoding failed"))
              ELSE IF data.kind # "matches"
                     THEN StatusJson(404, ErrorBody("Location not found"))
                     ELSE Json(GeocodeBody(data))
    /\ pc' = "done"
    /\ UNCHANGED <<resHeaders, calls, invoked>>
    /\ RouteFrame

\* --------------------------------------------------- /weather (137-161)
\* data of line 146: the full payload, one without main, one whose weather
\* array is empty
OpenWeatherAnswers ==
    [kind : {"current"}, hasMain : BOOLEAN, hasWeather : BOOLEAN]

\* lines 148-154
WeatherBody(data) ==
    [kind |-> "weather", temperature |-> 31, humidity |-> 40,
     description |-> "clear sky", wind_speed |-> 3, location |-> "Pune"]

\* lines 149, 151: data.main.temp, data.weather[0].description
WeatherThrows(data) == ~data.hasMain \/ ~data.hasWeather

\* lines 138-144
WeatherStart ==
    /\ pc = "route"
    /\ Route = "/weather"
    /\ invoked' = TRUE
    /\ IF Missing(event.lat) \/ Missing(event.lon)
         THEN Reject400("Missing lat/lon")
         ELSE IF ~apiKey
                THEN /\ StatusJson(500, ErrorBody("OpenWeather API key not configured"))
                     /\ pc' = "done"
                     /\ UNCHANGED calls
                ELSE AwaitFetch("weather_fetch")
    /\ UNCHANGED <<resHeaders, fetched>>
    /\ RouteFrame

\* lines 144-160
WeatherFetchReturn ==
    /\ pc = "weather_fetch"
    /\ \E data \in (IF upstream = "ok" THEN OpenWeatherAnswers ELSE {NoBody}) :
         /\ fetched' = data
         /\ IF upstream = "ok" /\ ~WeatherThrows(data)
              THEN Json(WeatherBody(data))
              ELSE StatusJson(500, ErrorBody("Weather data fetch failed"))
    /\ pc' = "done"
    /\ UNCHANGED <<resHeaders, calls, invoked>>
    /\ RouteFrame

\* The events: any method, any path; lat, lon and q absent, empty or given.
Events ==
    [httpMethod : Methods, path : Paths,
     lat : {Absent, Empty, "1"}, lon : {Absent, Empty, "1"},
     q : {Absent, Empty, "Pune"}]

Idle ==
    /\ statusCode = 200
    /\ responseData = EmptyBody
    /\ promise = [state |-> "none", error |-> ""]
    /\ ret = NoEnvelope
    /\ resStatus = 200
    /\ resBody = NoBody
    /\ resHeaders = {}
    /\ writes = 0
    /\ calls = 0
    /\ invoked = FALSE
    /\ fetched = NoBody

Init ==
    /\ event \in Events
    /\ apiKey \in BOOLEAN
    /\ tz = 0
    /\ upstream \in {"ok", "network_error"}
    /\ pc = "start"
    /\ Idle

Next ==
    \/ Preflight
    \/ Health
    \/ NotFound
    \/ RouterHandle
    \/ CatchError

Spec == Init /\ [][Next]_vars

\* The requests the routes are run on: a GET of one route with the query
\* parameters that route reads.
Get(route, lat, lon, q) ==
    [httpMethod |-> "GET", path |-> <<route>>, lat |-> lat, lon |-> lon, q |-> q]
Coordinates == {Absent, Empty, "1", "2", "x"}

InitRoutes ==
    /\ \/ /\ event = Get("/health", Absent, Absent, Absent)
          /\ apiKey = TRUE /\ tz = 0 /\ upstream = "ok"
       \/ /\ \E lat \in Coordinates, lon \in Coordinates :
                event = Get("/soil", lat, lon, Absent)
          /\ apiKey = TRUE /\ tz = 0 /\ upstream \in UpstreamStates
       \/ /\ \E lat \in {Absent, Empty, "1"}, lon \in {Absent, Empty, "1"} :
                event = Get("/rain-history", lat, lon, Absent)
          /\ apiKey = TRUE /\ tz \in TimeZones /\ upstream \in UpstreamStates
       \/ /\ \E q \in {Absent, Empty, "Pune"} :
                event = Get("/geocode", Absent, Absent, q)
          /\ apiKey = TRUE /\ tz = 0 /\ upstream \in UpstreamStates
       \/ /\ \E lat \in {Absent, Empty, "1"}, lon \in {Absent, Empty, "1"} :
                event = Get("/weather", lat, lon, Absent)
          /\ apiKey \in BOOLEAN /\ tz = 0 /\ upstream \in UpstreamStates
    /\ pc = "request"
    /\ Idle

NextRoutes ==
    \/ Middleware
    \/ HealthRoute
    \/ SoilStart
    \/ SoilFetchReturn
    \/ RainStart
    \/ RainFetchReturn
    \/ GeocodeStart
    \/ GeocodeFetchReturn
    \/ WeatherStart
    \/ WeatherFetchReturn

SpecRoutes == InitRoutes /\ [][NextRoutes]_vars

\* ===================================================================
\* The claims.  Under Spec a state with pc = "returned" holds the envelope
\* of the invocation in ret; under SpecRoutes a state with pc = "done"
\* holds the response the route wrote.
\* ===================================================================
FetchRoutes == {"/soil", "/rain-history", "/geocode", "/weather"}
LatLonRoutes == {"/soil", "/rain-history", "/weather"}
\* the path that is left after the prefix is stripped names this route
PathIs(route) == StripPrefix(event.path) = <<route>>
Returned == pc = "returned" /\ event.httpMethod # "OPTIONS"
HasLatLon == ~Missing(event.lat) /\ ~Missing(event.lon)
RainDone == pc = "done" /\ Route = "/rain-history" /\ resStatus = 200

\* -------------------------------------------------------------------
\* What the route handlers do on an Express response (SpecRoutes), for
\* comparison with the claims that fail at exports.handler (Spec).
\* -------------------------------------------------------------------
\* the parameter checks answer 400 before any outbound call
Routes_MissingParams400 ==
    pc = "done" =>
        /\ Route \in LatLonRoutes /\ ~HasLatLon
             => /\ resStatus = 400 /\ resBody = ErrorBody("Missing lat/lon")
                /\ calls = 0
        /\ Route = "/geocode" /\ Missing(event.q)
             => /\ resStatus = 400 /\ resBody = ErrorBody("Missing query")
                /\ calls = 0

\* /weather without a key answers 500 before any outbound call
Routes_NoKey500 ==
    pc = "done" /\ Route = "/weather" /\ HasLatLon /\ ~apiKey
        => /\ resStatus = 500
           /\ resBody = ErrorBody("OpenWeather API key not configured")
           /\ calls = 0

\* /soil answers a failed upstream call with the mock, after one call
Routes_SoilFallback ==
    pc = "done" /\ Route = "/soil" /\ HasLatLon /\ upstream # "ok"
        => /\ resStatus = 200
           /\ resBody = MockSoil(event.lat, event.lon)
           /\ calls = 1

\* the middleware's headers are on every response a route writes
Routes_Headers ==
    pc = "done" => CacheHeader \in resHeaders /\ CorsHeader \in resHeaders

\* at or east of UTC the two January entries 5 and 3 give Jan = 8.0 and
\* every other month 0.0
Routes_JanuaryExample ==
    /\ RainDone /\ tz >= 0
    /\ fetched.time = <<Day(1, 1), Day(1, 15)>>
    /\ fetched.precip = <<Num(20), Num(12)>>
    => /\ resBody.months[1].rainfall = 80
       /\ \A i \in 2..12 : resBody.months[i].rainfall = 0

\* exports.handler enters no route handler and makes no outbound call
Adapter_NoHandlerRuns ==
    ~invoked /\ calls = 0 /\ writes = 0 /\ resBody = NoBody

\* C1: a request to /soil, /rain-history or /weather without lat or lon is
\* answered 400 {"error":"Missing lat/lon"}, and a request to /geocode
\* without q is answered 400 {"error":"Missing query"}.
C1_MissingParams400 ==
    Returned =>
        /\ (\E r \in LatLonRoutes : PathIs(r)) /\ ~HasLatLon
             => ret.statusCode = 400 /\ ret.body = ErrorBody("Missing lat/lon")
        /\ PathIs("/geocode") /\ Missing(event.q)
             => ret.statusCode = 400 /\ ret.body = ErrorBody("Missing query")

\* C2: without an API key a /weather request with lat and lon is answered
\* 500 {"error":"OpenWeather API key not configured"} and no outbound call
\* is made.
C2_NoKey500 ==
    Returned /\ PathIs("/weather") /\ HasLatLon /\ ~apiKey
        => /\ ret.statusCode = 500
           /\ ret.body = ErrorBody("OpenWeather API key not configured")
           /\ calls = 0

\* C3: an OPTIONS invocation, whatever its path and query, returns 200
\* with an empty body and the CORS headers; it never reaches the router,
\* no route handler is entered and no outbound call is made.
C3_OptionsShortCircuit ==
    event.httpMethod = "OPTIONS" =>
        /\ pc \in {"start", "returned"}
        /\ promise.state = "none" /\ ~invoked /\ calls = 0
        /\ pc = "returned" =>
             /\ ret.statusCode = 200
             /\ ret.body = EmptyBody
             /\ CorsHeader \in ret.headers

C3_Witness ==
    /\ pc = "returned" /\ event.httpMethod = "OPTIONS"
    /\ event.path = <<PFX, "/soil">> /\ event.lat = "1"
    /\ ret.statusCode = 200 /\ ret.body = EmptyBody

\* C4: an invocation that is not OPTIONS and whose stripped path is none
\* of the five routes returns 404 {"error":"Not found"}; it never reaches
\* the router and no route handler is entered.
C4_UnknownPath404 ==
    event.httpMethod # "OPTIONS" /\ ~(\E r \in RoutePaths : PathIs(r)) =>
        /\ pc \in {"start", "returned"}
        /\ promise.state = "none" /\ ~invoked /\ calls = 0
        /\ pc = "returned" =>
             /\ ret.statusCode = 404
             /\ ret.body = ErrorBody("Not found")

C4_Witness ==
    /\ pc = "returned" /\ event.httpMethod = "GET"
    /\ event.path = <<"/soil", "/nope">>
    /\ ret.statusCode = 404 /\ ret.body = ErrorBody("Not found")

\* C5: a /soil request with lat and lon whose upstream call fails is
\* answered with a success that carries source "mock" and the values
\* computed from (lat, lon) alone, never with a 500, and with at most the
\* one outbound call.
C5_SoilFallback ==
    Returned /\ PathIs("/soil") /\ HasLatLon /\ upstream # "ok"
        => /\ ret.statusCode = 200
           /\ ret.body = MockSoil(event.lat, event.lon)
           /\ calls <= 1

\* C6 as claimed: a successful /rain-history response has exactly 12
\* entries, months Jan..Dec in order, each rainfall >= 0, whatever the
\* upstream returned.
CalendarMonths ==
    <<"Jan", "Feb", "Mar", "Apr", "May", "Jun", "Jul", "Aug", "Sep", "Oct", "Nov",
      "Dec">>
TwelveMonths ==
    /\ resBody.kind = "rain"
    /\ Len(resBody.months) = 12
    /\ \A i \in 1..12 : resBody.months[i].month = CalendarMonths[i]
C6_RainShape ==
    RainDone =>
        /\ TwelveMonths
        /\ \A i \in 1..12 : resBody.months[i].rainfall >= 0

\* C6 as amended: exactly 12 entries, months Jan..Dec in order; each
\* rainfall is >= 0 when no upstream value converts to a negative number.
C6_RainShapeAmended ==
    RainDone =>
        /\ TwelveMonths
        /\ (\A n \in DOMAIN fetched.precip : NumberOrZero(fetched.precip[n]) >= 0)
             => \A i \in 1..12 : resBody.months[i].rainfall >= 0

C6_Witness ==
    /\ RainDone
    /\ fetched.time = <<Day(2, 1), Day(1, 15)>>
    /\ fetched.precip = <<Num(20), Num(1)>>
    /\ resBody.months[1].rainfall > 0

\* C7: every response carries Cache-Control: no-store and the CORS header
\* Access-Control-Allow-Origin: *.
C7_NoStoreAndCors ==
    pc = "returned" => CacheHeader \in ret.headers /\ CorsHeader \in ret.headers

\* C8: for a routed path (not OPTIONS) the envelope that is returned holds
\* the status and the body the route handler wrote.
C8_EnvelopeIsHandlerOutput ==
    Returned /\ (\E r \in FetchRoutes : PathIs(r))
        => invoked /\ ret.statusCode = resStatus /\ ret.body = resBody

\* C9: the rainfall of month M is the sum, rounded to one decimal, of the
\* values of the entries whose date lies in calendar month M; entries
\* whose date does not parse count for no month, values that are missing
\* or not numbers count as zero.
RECURSIVE SumOfMonth(_, _, _)
SumOfMonth(daily, M, n) ==
    IF n = 0 THEN 0
    ELSE SumOfMonth(daily, M, n - 1)
         + (IF DateAt(daily.time, n).ok /\ DateAt(daily.time, n).month = M
              THEN NumberOrZero(daily.precip[n]) ELSE 0)
C9_MonthlySums ==
    RainDone =>
        /\ resBody.kind = "rain"
        /\ \A M \in 1..12 :
             resBody.months[M].rainfall
               = ToFixed1(SumOfMonth(fetched, M, Len(fetched.precip)))

\* C10: on every path of the four fetching handlers at most one outbound
\* call is made and exactly one response is written, the success payload
\* of the route or one error object.
SuccessKind ==
    [r \in FetchRoutes |->
        CASE r = "/soil" -> "soil" [] r = "/rain-history" -> "rain"
          [] r = "/geocode" -> "geocode" [] OTHER -> "weather"]
C10_OneCallOneResponse ==
    Route \in FetchRoutes =>
        /\ calls <= 1
        /\ writes = (IF pc = "done" THEN 1 ELSE 0)
        /\ pc = "done" =>
             /\ resBody.kind \in {"error", SuccessKind[Route]}
             /\ resBody.kind = "error" <=> resStatus >= 400

C10_Witness ==
    /\ pc = "done" /\ Route = "/geocode" /\ upstream = "network_error"
    /\ calls = 1 /\ writes = 1
    /\ resStatus = 500 /\ resBody = ErrorBody("Geocoding failed")

====
